---- MODULE Spec2Model ----
(***************************************************************************)
(* A model of the two subsystems of the repository:                        *)
(*   - the segmented key/value store (datastore/db.go, datastore/entry.go) *)
(*   - the least-connections load balancer (cmd/lb/balancer.go).           *)
(* Strings are sequences of bytes, files are sequences of bytes, and the   *)
(* codec is modelled byte by byte.                                         *)
(***************************************************************************)
EXTENDS Integers, Sequences, FiniteSets, TLC

(***************************************************************************)
(* Bounds of the model.                                                    *)
(***************************************************************************)
\* puts a run may issue
MaxPuts == 4
\* puts a run with failing writes may issue
MaxPutsFail == 3
\* gets a caller may issue between two puts
MaxGets == 1
\* puts a run with typed puts and gets may issue
MaxPutsTyped == 3
\* puts a run with two concurrent callers may issue
MaxPutsConc == 2
\* gets two concurrent callers may issue between two puts
MaxGetsConc == 2
\* writes of the active file that may fail in a run
MaxFail == 1
\* segment files a run may create (rotations and merges)
MaxFiles == 6
\* periodic health probes in a run of the balancer
MaxProbes == 3
\* requests a run of the balancer handles
MaxReqs == 2

(***************************************************************************)
(* Bytes and strings.                                                      *)
(***************************************************************************)
Min(a, b) == IF a < b THEN a ELSE b

\* the first n bytes of s (all of s when it is shorter)
Take(s, n) == SubSeq(s, 1, Min(n, Len(s)))

\* s without its first n bytes (empty when it is shorter)
Drop(s, n) == SubSeq(s, n + 1, Len(s))

Zeros(n) == [i \in 1..n |-> 0]

\* binary.LittleEndian.PutUint32
PutUint32(n) ==
    << n % 256, (n \div 256) % 256, (n \div 65536) % 256, (n \div 16777216) % 256 >>

\* binary.LittleEndian.Uint32 of the four bytes of s that start at 0-based offset off
Uint32(s, off) ==
    s[off + 1] + 256 * s[off + 2] + 65536 * s[off + 3] + 16777216 * s[off + 4]

\* copy(dst[off:], src): as many bytes of src as fit into dst from 0-based offset off
CopyAt(dst, off, src) ==
    [i \in 1..Len(dst) |->
        IF i > off /\ i - off <= Len(src) THEN src[i - off] ELSE dst[i]]

\* the type tags Put and PutInt64 append to the value
TagString == <<115>>
TagInt == <<105>>
\* deleteMarker = "DELETE"
deleteMarker == <<68, 69, 76, 69, 84, 69>>

(***************************************************************************)
(* entry.go: the codec.                                                    *)
(***************************************************************************)
entry(k, v) == [key |-> k, value |-> v, dataType |-> <<>>]

getLength(key, value, dataType) == Len(key) + Len(value) + Len(dataType) + 12

GetLength(e) == getLength(e.key, e.value, e.dataType)

\* an Encode that writes the length of the payload as the frame's size
EncodePayloadSize(e) ==
    LET kl == Len(e.key)
        vl == Len(e.value)
        size == kl + vl + 12
        r0 == Zeros(size)
        r1 == CopyAt(r0, 0, PutUint32(kl + vl))
        r2 == CopyAt(r1, 4, PutUint32(kl))
        r3 == CopyAt(r2, 8, e.key)
        r4 == CopyAt(r3, kl + 8, PutUint32(vl))
    IN  CopyAt(r4, kl + 12, e.value)

Encode(e) ==
    LET kl == Len(e.key)
        vl == Len(e.value)
        size == kl + vl + 12
        r0 == Zeros(size)
        r1 == CopyAt(r0, 0, PutUint32(size))
        r2 == CopyAt(r1, 4, PutUint32(kl))
        r3 == CopyAt(r2, 8, e.key)
        r4 == CopyAt(r3, kl + 8, PutUint32(vl))
        r5 == CopyAt(r4, kl + 12, e.value)
    IN  CopyAt(r5, kl + 12 + vl, e.dataType)

\* the results of a read: err is "nil" or the error, val the bytes read
Ok(v) == [err |-> "nil", val |-> v]
Fail(e) == [err |-> e, val |-> <<>>]

\* readValue on a bufio.Reader whose remaining input is rest
readValue(rest) ==
    IF Len(rest) < 8 THEN Fail("EOF")                     \* in.Peek(8)
    ELSE
    LET keySize == Uint32(rest, 4)
    IN  IF Len(rest) < keySize + 8 THEN Fail("EOF")       \* in.Discard(keySize + 8)
        ELSE
        LET r1 == Drop(rest, keySize + 8)
        IN  IF Len(r1) = 0 THEN Fail("EOF")               \* in.Read(dataTypeBuf)
            ELSE
            LET r2 == Drop(r1, Min(4, Len(r1)))
            IN  IF Len(r2) < 4 THEN Fail("EOF")           \* in.Peek(4)
                ELSE
                LET valSize == Uint32(r2, 0)
                    r3 == Drop(r2, 4)                     \* in.Discard(4)
                IN  IF valSize = 0 THEN Ok(<<>>)          \* in.Read(data), len(data) = 0
                    ELSE IF Len(r3) = 0 THEN Fail("EOF")
                    ELSE IF Len(r3) < valSize THEN Fail("short")
                    ELSE Ok(Take(r3, valSize))


\* entry.Decode of input, a slice of capacity cap: the key and value it yields, or a
\* panic when a slice expression or a Uint32 leaves the slice
Decode(input, cap) ==
    IF Len(input) < 8 THEN [panic |-> TRUE]                       \* Uint32(input[4:])
    ELSE
    LET kl == Uint32(input, 4)
    IN  IF kl + 12 > Len(input) THEN [panic |-> TRUE]             \* Uint32(input[kl+8:])
        ELSE
        LET vl == Uint32(input, kl + 8)
        IN  IF kl + 12 + vl + 4 > Len(input) THEN [panic |-> TRUE]  \* Uint32(input[kl+12+vl:])
            ELSE
            LET dl == Uint32(input, kl + 12 + vl)
            IN  IF kl + 16 + vl + dl > cap THEN [panic |-> TRUE]
                ELSE [panic |-> FALSE,
                      key |-> SubSeq(input, 9, kl + 8),
                      value |-> SubSeq(input, kl + 13, kl + 12 + vl)]

(***************************************************************************)
(* db.go: the store.                                                       *)
(***************************************************************************)
\* bufSize of db.go
bufSize == 8192

\* the keys the callers use: "1" and "2"
Keys == {<<49>>, <<50>>}

\* the value of a caller's n-th put (n from 0): "a", "b", "c", ...
ValueOf(n) == <<97 + n>>

\* the segment sizes NewDb is called with: one frame, or two frames, fit in a segment
SegmentSizes == {20, 30}

\* how many bytes of the frame reach the file when a write fails
PartialLens == {0, 5}

\* the callers of the store
Clients == {1}
\* the goroutines of a program that uses one Db from two goroutines
ConcClients == {1, 2}

\* "no position" in a hashIndex
NoPos == -1
EmptyIndex == [k \in Keys |-> NoPos]

\* a *keyPosition; nil is NilPos
NilPos == [found |-> FALSE, filePath |-> 0, position |-> 0]
KeyPos(f, p) == [found |-> TRUE, filePath |-> f, position |-> p]

NoneVal == <<0>>

VARIABLES
    files,             \* files[i]: the bytes of <dir>/current-data<i>
    segments,          \* db.segments: records [filePath, index]
    out,               \* the file db.out is open on
    outOffset,         \* db.outOffset
    lastSegmentIndex,  \* db.lastSegmentIndex
    segmentSize,       \* db.segmentSize
    dbState,           \* "open", or how NewDb or the process ended: "error", "panic"
    wpc, wE, wN, wErr, \* PutGoroutine: position, the entry e, n and err of the Write
    ipc, iOp, iRes,    \* IndexGoroutine: position, op, the reply it sends
    merges,            \* the goroutines mergeOldSegments started
    cpc, cKey, cPos, cRes,  \* each caller: position, key, keyPos, and the result of
                       \* its last call (until it starts the next)
    lastPut,           \* history: per key the value, type tag included, that the last
                       \* put that returned nil stored
    nPuts, nGets, nFail, reopened,  \* history: puts issued, gets since the last put,
                       \* failed writes, the puts issued when NewDb ran again
    budget             \* the puts and gets the run may issue

storeVars == <<files, segments, out, outOffset, lastSegmentIndex, segmentSize, dbState,
               wpc, wE, wN, wErr, ipc, iOp, iRes, merges, cpc, cKey, cPos, cRes,
               lastPut, nPuts, nGets, nFail, reopened, budget>>

NewSegment(f) == [filePath |-> f, index |-> EmptyIndex]

getLastSegment(segs) == segs[Len(segs)]

\* a walk that replies the start of the oldest segment for a key it did not find
getSegmentAndPosDefault(segs, key) ==
    LET hits == {i \in 1..Len(segs) : segs[i].index[key] # NoPos}
    IN  IF hits = {} THEN KeyPos(segs[1].filePath, 0)
        ELSE LET i == CHOOSE h \in hits : \A j \in hits : j <= h
             IN  KeyPos(segs[i].filePath, segs[i].index[key])

\* Db.getSegmentAndPos: the newest segment whose index holds key
getSegmentAndPos(segs, key) ==
    LET hits == {i \in 1..Len(segs) : segs[i].index[key] # NoPos}
    IN  IF hits = {} THEN NilPos
        ELSE LET i == CHOOSE h \in hits : \A j \in hits : j <= h
             IN  KeyPos(segs[i].filePath, segs[i].index[key])

\* Segment.getFromSegment: open the file, seek to position, readValue
getFromSegment(fs, filePath, position) == readValue(Drop(fs[filePath], position))

\* what Db.Get makes of the position the index goroutine replied
GetAt(fs, keyPos) ==
    IF ~keyPos.found THEN Fail("ErrNotFound")
    ELSE
    LET r == getFromSegment(fs, keyPos.filePath, keyPos.position)
    IN  IF r.err # "nil" THEN r
        ELSE IF Len(r.val) = 0 THEN Fail("panic")             \* value[len(value)-1:]
        ELSE IF SubSeq(r.val, Len(r.val), Len(r.val)) # TagString
             THEN Fail("invalid data type")
        ELSE Ok(SubSeq(r.val, 1, Len(r.val) - 1))

\* Db.Get(key) run to its end in the current state
GetOf(key) == GetAt(files, getSegmentAndPos(segments, key))

\* Db.setKey
setKey(segs, off, key, n) ==
    [segs |-> [segs EXCEPT ![Len(segs)].index[key] = off], off |-> off + n]

\* Db.recover on the rest of the active file: the index of the last segment and
\* db.outOffset after it, and how it ended ("EOF" is the clean end)
RECURSIVE recover(_, _, _)
recover(rest, segs, off) ==
    IF Len(rest) = 0 THEN [end |-> "EOF", segs |-> segs, off |-> off]
    ELSE IF Len(rest) < 4 THEN [end |-> "panic", segs |-> segs, off |-> off]
    ELSE
    LET size == Uint32(rest, 0)
        n == Min(size, Len(rest))
        data == Take(rest, n)
    IN  IF n # size THEN [end |-> "corrupted file", segs |-> segs, off |-> off]
        ELSE
        LET e == Decode(data, IF size < bufSize THEN bufSize ELSE size)
        IN  IF e.panic THEN [end |-> "panic", segs |-> segs, off |-> off]
            ELSE LET s == setKey(segs, off, e.key, n)
                 IN  recover(Drop(rest, n), s.segs, s.off)


(***************************************************************************)
(* The balancer's state (cmd/lb/balancer.go).                              *)
(***************************************************************************)
VARIABLES
    connCnt,           \* Server.connCnt of each backend
    isServerOnline,    \* Server.isServerOnline of each backend
    onlineServers,     \* the ServerHeap: a sequence of backends
    lastProbe,         \* history: the result of each backend's latest probe
    mainPc,            \* main: the backend its start-up pass probes next, or "serve"
    hpc, hSrv, hTmp, hStatus,  \* each request handler: position, server, connCnt read, status
    traceEnabled,      \* the flag -trace
    hResp,             \* each handler: what http.DefaultClient.Do returned to forward
    hHeader,           \* each handler: rw.Header(), the headers of its response
    hErr,              \* each handler: what forward returned
    nProbes            \* history: periodic probes made

lbVars == <<connCnt, isServerOnline, onlineServers, lastProbe, mainPc,
            hpc, hSrv, hTmp, hStatus, traceEnabled, hResp, hHeader, hErr, nProbes>>

(***************************************************************************)
(* A caller of the codec alone (datastore/entry.go).                       *)
(***************************************************************************)
VARIABLES
    codec              \* an entry e, the bytes that follow its frame in the file, and
                       \* once they ran: Encode's frame, GetLength's result, what
                       \* Decode yielded and what readValue returned

vars == <<storeVars, lbVars, codec>>

(***************************************************************************)
(* The store: NewDb, the callers, PutGoroutine, IndexGoroutine, the merge. *)
(***************************************************************************)
FileIds == 0..(MaxFiles - 1)

NoEntry == entry(<<>>, <<>>)
NoOp == [isWrite |-> FALSE, key |-> <<>>, index |-> 0]
NoRes == [op |-> "none", key |-> <<>>, err |-> "nil", val |-> <<>>, ioErr |-> "nil"]

\* NewDb on a directory whose files are fs: createNewSegment, then recover
NewDb(fs) ==
    LET segs == <<NewSegment(0)>>
        r == recover(fs[0], segs, 0)
    IN  [segments |-> r.segs, outOffset |-> r.off,
         dbState |-> IF r.end = "EOF" THEN "open"
                     ELSE IF r.end = "panic" THEN "panic" ELSE "error"]

StoreStartWith(clients) ==
    /\ files = [i \in FileIds |-> <<>>]
    /\ segments = NewDb(files).segments
    /\ outOffset = NewDb(files).outOffset
    /\ dbState = NewDb(files).dbState
    /\ out = 0
    /\ lastSegmentIndex = 1
    /\ wpc = "recv" /\ wE = NoEntry /\ wN = 0 /\ wErr = "nil"
    /\ ipc = "idle" /\ iOp = NoOp /\ iRes = NilPos
    /\ merges = <<>>
    /\ cpc = [c \in clients |-> "idle"]
    /\ cKey = [c \in clients |-> <<>>]
    /\ cPos = [c \in clients |-> NilPos]
    /\ cRes = [c \in clients |-> NoRes]
    /\ lastPut = [k \in Keys |-> NoneVal]
    /\ nPuts = 0 /\ nGets = 0 /\ nFail = 0 /\ reopened = {}

\* NewDb on an empty directory, used by the one caller of the sequential runs
StoreStart == StoreStartWith(Clients)

\* the budget of the run, and the segment size NewDb is called with (0: no store)
StoreBudget(puts, gets, sizes) ==
    /\ segmentSize \in sizes
    /\ budget = [puts |-> puts, gets |-> gets]

\* Db.Put(key, value) up to its send on putOps, which PutGoroutine receives; the
\* goroutine takes the frame length and the size of the active file
Put(c, key, value) ==
    /\ dbState = "open" /\ cpc[c] = "idle" /\ wpc = "recv"
    /\ nPuts < budget.puts
    /\ LET e == entry(key, value \o TagString)
       IN  /\ wE' = e
           /\ wpc' = IF Len(files[out]) + GetLength(e) > segmentSize
                     THEN "rotate" ELSE "write"
    /\ cpc' = [cpc EXCEPT ![c] = "putWait"]
    /\ cKey' = [cKey EXCEPT ![c] = key]
    /\ cRes' = [cRes EXCEPT ![c] = NoRes]
    /\ nPuts' = nPuts + 1
    /\ nGets' = 0
    /\ UNCHANGED <<files, segments, out, outOffset, lastSegmentIndex, segmentSize,
                   dbState, wN, wErr, ipc, iOp, iRes, merges, cPos, lastPut,
                   nFail, reopened, budget, lbVars, codec>>

\* a goroutine that mergeOldSegments has just started
NewMerge ==
    [pc |-> "name", filePath |-> 0, last |-> 0, index |-> EmptyIndex, offset |-> 0,
     tail |-> NewSegment(0)]
DoneMerge ==
    [pc |-> "done", filePath |-> 0, last |-> 0, index |-> EmptyIndex, offset |-> 0,
     tail |-> NewSegment(0)]

\* Db.createNewSegment, called by PutGoroutine when the entry does not fit
createNewSegment ==
    /\ dbState = "open" /\ wpc = "rotate"
    /\ lastSegmentIndex < MaxFiles
    /\ out' = lastSegmentIndex
    /\ lastSegmentIndex' = lastSegmentIndex + 1
    /\ outOffset' = 0
    /\ segments' = Append(segments, NewSegment(lastSegmentIndex))
    /\ merges' = IF Len(segments) + 1 >= 3 THEN Append(merges, NewMerge) ELSE merges
    /\ wpc' = "write"
    /\ UNCHANGED <<files, segmentSize, dbState, wE, wN, wErr, ipc, iOp, iRes,
                   cpc, cKey, cPos, cRes, lastPut, nPuts, nGets, nFail, reopened, budget, lbVars, codec>>

\* db.out.Write(e.Encode()) succeeds
WriteOk ==
    /\ dbState = "open" /\ wpc = "write"
    /\ files' = [files EXCEPT ![out] = @ \o Encode(wE)]
    /\ wN' = Len(Encode(wE))
    /\ wErr' = "nil"
    /\ wpc' = "index"
    /\ UNCHANGED <<segments, out, outOffset, lastSegmentIndex, segmentSize, dbState,
                   wE, ipc, iOp, iRes, merges, cpc, cKey, cPos, cRes, lastPut,
                   nPuts, nGets, nFail, reopened, budget, lbVars, codec>>

\* db.out.Write(e.Encode()) fails after n bytes
WriteFail(n) ==
    /\ dbState = "open" /\ wpc = "write"
    /\ nFail < MaxFail
    /\ files' = [files EXCEPT ![out] = @ \o Take(Encode(wE), n)]
    /\ wN' = n
    /\ wErr' = "io"
    /\ wpc' = "done"
    /\ nFail' = nFail + 1
    /\ UNCHANGED <<segments, out, outOffset, lastSegmentIndex, segmentSize, dbState,
                   wE, ipc, iOp, iRes, merges, cpc, cKey, cPos, cRes, lastPut,
                   nPuts, nGets, reopened, budget, lbVars, codec>>

\* PutGoroutine sends the index write, which IndexGoroutine receives
SendIndexOp ==
    /\ dbState = "open" /\ wpc = "index" /\ ipc = "idle"
    /\ iOp' = [isWrite |-> TRUE, key |-> wE.key, index |-> wN]
    /\ ipc' = "exec"
    /\ wpc' = "done"
    /\ UNCHANGED <<files, segments, out, outOffset, lastSegmentIndex, segmentSize,
                   dbState, wE, wN, wErr, iRes, merges, cpc, cKey, cPos, cRes, lastPut,
                   nPuts, nGets, nFail, reopened, budget, lbVars, codec>>

\* what PutGoroutine sends on putDone after a Write that ended with err
putDone(err) == "nil"

\* PutGoroutine sends on putDone, and the caller's Put returns
PutReturn(c) ==
    /\ dbState = "open" /\ wpc = "done" /\ cpc[c] = "putWait"
    /\ cRes' = [cRes EXCEPT ![c] = [op |-> "put", key |-> cKey[c], err |-> putDone(wErr),
                                    val |-> <<>>, ioErr |-> wErr]]
    /\ lastPut' = IF putDone(wErr) = "nil"
                  THEN [lastPut EXCEPT ![cKey[c]] = wE.value]
                  ELSE lastPut
    /\ cpc' = [cpc EXCEPT ![c] = "idle"]
    /\ cKey' = [cKey EXCEPT ![c] = <<>>]
    /\ wpc' = "recv" /\ wE' = NoEntry /\ wN' = 0 /\ wErr' = "nil"
    /\ UNCHANGED <<files, segments, out, outOffset, lastSegmentIndex, segmentSize,
                   dbState, ipc, iOp, iRes, merges, cPos,
                   nPuts, nGets, nFail, reopened, budget, lbVars, codec>>

\* getPos over an indexOps channel with a buffer: the send does not wait for
\* IndexGoroutine to come back to its receive
GetSendBuffered(c, key) ==
    /\ dbState = "open" /\ cpc[c] = "idle" /\ ipc \in {"idle", "reply"}
    /\ nGets < budget.gets
    /\ iOp' = [isWrite |-> FALSE, key |-> key, index |-> 0]
    /\ ipc' = "exec"
    /\ cpc' = [cpc EXCEPT ![c] = "posWait"]
    /\ cKey' = [cKey EXCEPT ![c] = key]
    /\ cRes' = [cRes EXCEPT ![c] = NoRes]
    /\ nGets' = nGets + 1
    /\ UNCHANGED <<files, segments, out, outOffset, lastSegmentIndex, segmentSize,
                   dbState, wpc, wE, wN, wErr, iRes, merges, cPos, lastPut,
                   nPuts, nFail, reopened, budget, lbVars, codec>>

\* Db.getPos sends the lookup, which IndexGoroutine receives
GetSend(c, key) ==
    /\ dbState = "open" /\ cpc[c] = "idle" /\ ipc = "idle"
    /\ nGets < budget.gets
    /\ iOp' = [isWrite |-> FALSE, key |-> key, index |-> 0]
    /\ ipc' = "exec"
    /\ cpc' = [cpc EXCEPT ![c] = "posWait"]
    /\ cKey' = [cKey EXCEPT ![c] = key]
    /\ cRes' = [cRes EXCEPT ![c] = NoRes]
    /\ nGets' = nGets + 1
    /\ UNCHANGED <<files, segments, out, outOffset, lastSegmentIndex, segmentSize,
                   dbState, wpc, wE, wN, wErr, iRes, merges, cPos, lastPut,
                   nPuts, nFail, reopened, budget, lbVars, codec>>

\* IndexGoroutine runs the op it received: setKey, or the lookup.  A merge that has
\* taken the last segment holds a pointer to it, so it sees what setKey writes there.
IndexExec ==
    /\ dbState = "open" /\ ipc = "exec"
    /\ IF iOp.isWrite
       THEN LET s == setKey(segments, outOffset, iOp.key, iOp.index)
            IN  /\ segments' = s.segs
                /\ outOffset' = s.off
                /\ merges' = [m \in 1..Len(merges) |->
                                 IF merges[m].pc = "assign"
                                        /\ merges[m].tail = getLastSegment(segments)
                                 THEN [merges[m] EXCEPT !.tail = getLastSegment(s.segs)]
                                 ELSE merges[m]]
                /\ ipc' = "idle"
                /\ iRes' = iRes
       ELSE /\ iRes' = getSegmentAndPos(segments, iOp.key)
            /\ ipc' = "reply"
            /\ UNCHANGED <<segments, outOffset, merges>>
    /\ iOp' = NoOp
    /\ UNCHANGED <<files, out, lastSegmentIndex, segmentSize, dbState, wpc, wE, wN, wErr,
                   cpc, cKey, cPos, cRes, lastPut, nPuts, nGets, nFail,
                   reopened, budget, lbVars, codec>>

\* IndexGoroutine sends on keyPositions, which the caller in getPos receives
IndexReply(c) ==
    /\ dbState = "open" /\ ipc = "reply" /\ cpc[c] = "posWait"
    /\ cPos' = [cPos EXCEPT ![c] = iRes]
    /\ cpc' = [cpc EXCEPT ![c] = "read"]
    /\ ipc' = "idle" /\ iRes' = NilPos
    /\ UNCHANGED <<files, segments, out, outOffset, lastSegmentIndex, segmentSize,
                   dbState, wpc, wE, wN, wErr, iOp, merges, cKey, cRes, lastPut,
                   nPuts, nGets, nFail, reopened, budget, lbVars, codec>>

\* Db.Get after getPos: read the value at the position and return
GetReturn(c) ==
    /\ dbState = "open" /\ cpc[c] = "read"
    /\ LET r == GetAt(files, cPos[c])
       IN  /\ cRes' = [cRes EXCEPT ![c] = [op |-> "get", key |-> cKey[c], err |-> r.err,
                                           val |-> r.val, ioErr |-> "nil"]]
           /\ dbState' = IF r.err = "panic" THEN "panic" ELSE dbState
    /\ cpc' = [cpc EXCEPT ![c] = "idle"]
    /\ cKey' = [cKey EXCEPT ![c] = <<>>]
    /\ cPos' = [cPos EXCEPT ![c] = NilPos]
    /\ UNCHANGED <<files, segments, out, outOffset, lastSegmentIndex, segmentSize,
                   wpc, wE, wN, wErr, ipc, iOp, iRes, merges, lastPut,
                   nPuts, nGets, nFail, reopened, budget, lbVars, codec>>


\* the orders in which a range over the map index may visit its keys
KeyOrders(index) ==
    LET ks == {k \in Keys : index[k] # NoPos}
    IN  {o \in [1..Cardinality(ks) -> ks] : \A a, b \in 1..Cardinality(ks) : o[a] = o[b] => a = b}

findKeyInSegments(segs, key) == \E j \in 1..Len(segs) : segs[j].index[key] # NoPos

\* the body of the merge's loop over the keys of segment i (0-based), visited in the
\* order ord; st holds the files, newSegment.index, offset, and whether it panicked
RECURSIVE mergeKeys(_, _, _, _, _)
mergeKeys(ord, m, i, segs, st) ==
    IF ord = <<>> \/ st.panic THEN st
    ELSE
    LET key == Head(ord)
        s == segs[i + 1]
    IN  IF i < m.last /\ m.last + 1 > Len(segs)
        THEN [st EXCEPT !.panic = TRUE]              \* db.segments[i+1:lastSegmentIndex+1]
        ELSE IF i < m.last /\ findKeyInSegments(SubSeq(segs, i + 2, m.last + 1), key)
        THEN mergeKeys(Tail(ord), m, i, segs, st)
        ELSE
        LET r == getFromSegment(st.files, s.filePath, s.index[key])
            value == IF r.err = "nil" THEN r.val ELSE <<>>
            bytes == Encode(entry(key, value))
        IN  IF value = deleteMarker
            THEN mergeKeys(Tail(ord), m, i, segs, st)
            ELSE mergeKeys(Tail(ord), m, i, segs,
                           [st EXCEPT !.files[m.filePath] = @ \o bytes,
                                      !.index[key] = st.offset,
                                      !.offset = @ + Len(bytes)])

\* the merge goroutine reads db.lastSegmentIndex for the name of its file
MergeName(m) ==
    /\ dbState = "open" /\ m \in 1..Len(merges) /\ merges[m].pc = "name"
    /\ lastSegmentIndex < MaxFiles
    /\ merges' = [merges EXCEPT ![m].filePath = lastSegmentIndex, ![m].pc = "open"]
    /\ UNCHANGED <<files, segments, out, outOffset, lastSegmentIndex, segmentSize,
                   dbState, wpc, wE, wN, wErr, ipc, iOp, iRes, cpc, cKey, cPos, cRes,
                   lastPut, nPuts, nGets, nFail, reopened, budget, lbVars, codec>>

\* it increments db.lastSegmentIndex, opens the file and takes len(db.segments) - 2
MergeOpen(m) ==
    /\ dbState = "open" /\ m \in 1..Len(merges) /\ merges[m].pc = "open"
    /\ lastSegmentIndex' = lastSegmentIndex + 1
    /\ merges' = [merges EXCEPT ![m].last = Len(segments) - 2, ![m].pc = "loop"]
    /\ UNCHANGED <<files, segments, out, outOffset, segmentSize,
                   dbState, wpc, wE, wN, wErr, ipc, iOp, iRes, cpc, cKey, cPos, cRes,
                   lastPut, nPuts, nGets, nFail, reopened, budget, lbVars, codec>>

\* the merge's loop over segments i..last, each segment's keys visited in some order
RECURSIVE mergeLoop(_, _, _, _)
mergeLoop(m, i, segs, st) ==
    IF i > m.last \/ st.panic THEN {st}
    ELSE IF i + 1 > Len(segs) THEN {[st EXCEPT !.panic = TRUE]}   \* db.segments[i]
    ELSE UNION {mergeLoop(m, i + 1, segs, mergeKeys(ord, m, i, segs, st)) :
                    ord \in KeyOrders(segs[i + 1].index)}

\* the loop of the merge: segments 0..last are copied into the new file
MergeSegments(m) ==
    /\ dbState = "open" /\ m \in 1..Len(merges) /\ merges[m].pc = "loop"
    /\ \E st \in mergeLoop(merges[m], 0, segments,
                           [files |-> files, index |-> merges[m].index,
                            offset |-> merges[m].offset, panic |-> FALSE]) :
          /\ dbState' = IF st.panic THEN "panic" ELSE dbState
          /\ files' = st.files
          /\ merges' = [merges EXCEPT ![m].index = st.index, ![m].offset = st.offset,
                                      ![m].pc = "publish"]
    /\ UNCHANGED <<segments, out, outOffset, lastSegmentIndex, segmentSize,
                   wpc, wE, wN, wErr, ipc, iOp, iRes, cpc, cKey, cPos, cRes,
                   lastPut, nPuts, nGets, nFail, reopened, budget, lbVars, codec>>

\* db.getLastSegment() in the composite literal the merge is about to assign: a read
\* of db.segments that no lock orders with the writer's append
MergeGetLast(m) ==
    /\ dbState = "open" /\ m \in 1..Len(merges) /\ merges[m].pc = "publish"
    /\ merges' = [merges EXCEPT ![m].tail = getLastSegment(segments), ![m].pc = "assign"]
    /\ UNCHANGED <<files, segments, out, outOffset, lastSegmentIndex, segmentSize,
                   dbState, wpc, wE, wN, wErr, ipc, iOp, iRes, cpc, cKey, cPos, cRes,
                   lastPut, nPuts, nGets, nFail, reopened, budget, lbVars, codec>>

\* the segment list a merge publishes: its new segment, then the last segment it read
mergedSegments(m) ==
    << [filePath |-> m.filePath, index |-> m.index], m.tail >>

\* db.segments = []*Segment{newSegment, db.getLastSegment()} : the assignment
MergePublish(m) ==
    /\ dbState = "open" /\ m \in 1..Len(merges) /\ merges[m].pc = "assign"
    /\ segments' = mergedSegments(merges[m])
    /\ merges' = [merges EXCEPT ![m] = DoneMerge]
    /\ UNCHANGED <<files, out, outOffset, lastSegmentIndex, segmentSize,
                   dbState, wpc, wE, wN, wErr, ipc, iOp, iRes, cpc, cKey, cPos, cRes,
                   lastPut, nPuts, nGets, nFail, reopened, budget, lbVars, codec>>

\* Db.Close, then NewDb on the same directory in a new process
Reopen ==
    /\ dbState = "open" /\ reopened = {}
    /\ \A c \in Clients : cpc[c] = "idle"
    /\ nPuts > 0
    /\ segments' = NewDb(files).segments
    /\ outOffset' = NewDb(files).outOffset
    /\ dbState' = NewDb(files).dbState
    /\ out' = 0
    /\ lastSegmentIndex' = 1
    /\ wpc' = "recv" /\ wE' = NoEntry /\ wN' = 0 /\ wErr' = "nil"
    /\ ipc' = "idle" /\ iOp' = NoOp /\ iRes' = NilPos
    /\ merges' = <<>>
    /\ reopened' = {nPuts}
    /\ cRes' = [c \in Clients |-> NoRes]
    /\ UNCHANGED <<files, segmentSize, cpc, cKey, cPos,
                   lastPut, nPuts, nGets, nFail, budget, lbVars, codec>>

(***************************************************************************)
(* PutInt64 and GetInt64.                                                  *)
(***************************************************************************)
\* the integers the callers put
Ints == {0, 7, -12}

\* the decimal digits of n >= 0, as bytes
RECURSIVE Digits(_)
Digits(n) == IF n < 10 THEN <<48 + n>> ELSE Digits(n \div 10) \o <<48 + (n % 10)>>

\* strconv.FormatInt(value, 10)
FormatInt(n) == IF n < 0 THEN <<45>> \o Digits(0 - n) ELSE Digits(n)

\* the number a string of decimal digits denotes
RECURSIVE DigitsValue(_)
DigitsValue(s) ==
    IF Len(s) = 0 THEN 0 ELSE 10 * DigitsValue(SubSeq(s, 1, Len(s) - 1)) + (s[Len(s)] - 48)

\* strconv.ParseInt(s, 10, 64): an optional sign, then one or more digits
ParseInt(s) ==
    LET signed == Len(s) > 0 /\ s[1] \in {43, 45}
        ds == IF signed THEN Tail(s) ELSE s
    IN  IF Len(ds) = 0 \/ \E i \in 1..Len(ds) : ds[i] < 48 \/ ds[i] > 57
        THEN [err |-> "syntax", val |-> 0]
        ELSE [err |-> "nil",
              val |-> IF signed /\ s[1] = 45 THEN 0 - DigitsValue(ds) ELSE DigitsValue(ds)]

\* Db.PutInt64(key, value) up to its send on putOps, which PutGoroutine receives
PutInt64(c, key, value) ==
    /\ dbState = "open" /\ cpc[c] = "idle" /\ wpc = "recv"
    /\ nPuts < budget.puts
    /\ LET e == entry(key, FormatInt(value) \o TagInt)
       IN  /\ wE' = e
           /\ wpc' = IF Len(files[out]) + GetLength(e) > segmentSize
                     THEN "rotate" ELSE "write"
    /\ cpc' = [cpc EXCEPT ![c] = "putWait"]
    /\ cKey' = [cKey EXCEPT ![c] = key]
    /\ cRes' = [cRes EXCEPT ![c] = NoRes]
    /\ nPuts' = nPuts + 1
    /\ nGets' = 0
    /\ UNCHANGED <<files, segments, out, outOffset, lastSegmentIndex, segmentSize,
                   dbState, wN, wErr, ipc, iOp, iRes, merges, cPos, lastPut,
                   nFail, reopened, budget, lbVars, codec>>

\* Db.getPos called by GetInt64 sends the lookup, which IndexGoroutine receives
GetInt64Send(c, key) ==
    /\ dbState = "open" /\ cpc[c] = "idle" /\ ipc = "idle"
    /\ nGets < budget.gets
    /\ iOp' = [isWrite |-> FALSE, key |-> key, index |-> 0]
    /\ ipc' = "exec"
    /\ cpc' = [cpc EXCEPT ![c] = "posWaitInt64"]
    /\ cKey' = [cKey EXCEPT ![c] = key]
    /\ cRes' = [cRes EXCEPT ![c] = NoRes]
    /\ nGets' = nGets + 1
    /\ UNCHANGED <<files, segments, out, outOffset, lastSegmentIndex, segmentSize,
                   dbState, wpc, wE, wN, wErr, iRes, merges, cPos, lastPut,
                   nPuts, nFail, reopened, budget, lbVars, codec>>

\* IndexGoroutine sends on keyPositions, which the caller of GetInt64 receives in getPos
IndexReplyInt64(c) ==
    /\ dbState = "open" /\ ipc = "reply" /\ cpc[c] = "posWaitInt64"
    /\ cPos' = [cPos EXCEPT ![c] = iRes]
    /\ cpc' = [cpc EXCEPT ![c] = "readInt64"]
    /\ ipc' = "idle" /\ iRes' = NilPos
    /\ UNCHANGED <<files, segments, out, outOffset, lastSegmentIndex, segmentSize,
                   dbState, wpc, wE, wN, wErr, iOp, merges, cKey, cRes, lastPut,
                   nPuts, nGets, nFail, reopened, budget, lbVars, codec>>

\* what Db.GetInt64 makes of the position the index goroutine replied
GetInt64At(fs, keyPos) ==
    IF ~keyPos.found THEN [err |-> "ErrNotFound", val |-> 0]
    ELSE
    LET r == getFromSegment(fs, keyPos.filePath, keyPos.position)
    IN  IF r.err # "nil" THEN [err |-> r.err, val |-> 0]
        ELSE IF Len(r.val) = 0 THEN [err |-> "panic", val |-> 0]   \* valueStr[len(valueStr)-1:]
        ELSE IF SubSeq(r.val, Len(r.val), Len(r.val)) # TagInt
             THEN [err |-> "invalid data type", val |-> 0]
        ELSE ParseInt(SubSeq(r.val, 1, Len(r.val) - 1))

\* Db.GetInt64 after getPos: read the value at the position, parse it and return
GetInt64Return(c) ==
    /\ dbState = "open" /\ cpc[c] = "readInt64"
    /\ LET r == GetInt64At(files, cPos[c])
       IN  /\ cRes' = [cRes EXCEPT ![c] = [op |-> "getInt64", key |-> cKey[c],
                                           err |-> r.err, val |-> r.val, ioErr |-> "nil"]]
           /\ dbState' = IF r.err = "panic" THEN "panic" ELSE dbState
    /\ cpc' = [cpc EXCEPT ![c] = "idle"]
    /\ cKey' = [cKey EXCEPT ![c] = <<>>]
    /\ cPos' = [cPos EXCEPT ![c] = NilPos]
    /\ UNCHANGED <<files, segments, out, outOffset, lastSegmentIndex, segmentSize,
                   wpc, wE, wN, wErr, ipc, iOp, iRes, merges, lastPut,
                   nPuts, nGets, nFail, reopened, budget, lbVars, codec>>

StoreNext ==
    \/ \E c \in Clients, k \in Keys : Put(c, k, ValueOf(nPuts))
    \/ createNewSegment
    \/ WriteOk
    \/ SendIndexOp
    \/ \E c \in Clients : PutReturn(c)
    \/ \E c \in Clients, k \in Keys : GetSend(c, k)
    \/ IndexExec
    \/ \E c \in Clients : IndexReply(c)
    \/ \E c \in Clients : GetReturn(c)
    \/ \E m \in 1..Len(merges) : MergeName(m)
    \/ \E m \in 1..Len(merges) : MergeOpen(m)
    \/ \E m \in 1..Len(merges) : MergeSegments(m)
    \/ \E m \in 1..Len(merges) : MergeGetLast(m)
    \/ \E m \in 1..Len(merges) : MergePublish(m)
    \/ Reopen

\* a store opened on an empty directory, with either segment size, and no balancer
StoreInit ==
    /\ StoreStart /\ StoreBudget(MaxPuts, MaxGets, SegmentSizes)
    /\ connCnt = <<>> /\ isServerOnline = <<>> /\ onlineServers = <<>>
    /\ lastProbe = <<>> /\ mainPc = 0 /\ hpc = <<>> /\ hSrv = <<>> /\ hTmp = <<>>
    /\ hStatus = <<>> /\ nProbes = 0
    /\ traceEnabled = FALSE /\ hResp = <<>> /\ hHeader = <<>> /\ hErr = <<>>
    /\ codec = <<>>

SpecStore == StoreInit /\ [][StoreNext]_vars


\* a store whose writes of the active file may fail
FailInit ==
    /\ StoreStart /\ StoreBudget(MaxPutsFail, MaxGets, SegmentSizes)
    /\ connCnt = <<>> /\ isServerOnline = <<>> /\ onlineServers = <<>>
    /\ lastProbe = <<>> /\ mainPc = 0 /\ hpc = <<>> /\ hSrv = <<>> /\ hTmp = <<>>
    /\ hStatus = <<>> /\ nProbes = 0
    /\ traceEnabled = FALSE /\ hResp = <<>> /\ hHeader = <<>> /\ hErr = <<>>
    /\ codec = <<>>

FailNext ==
    \/ StoreNext
    \/ \E n \in PartialLens : WriteFail(n)

SpecFail == FailInit /\ [][FailNext]_vars

\* a store whose callers put and get strings and integers
TypedInit ==
    /\ StoreStart /\ StoreBudget(MaxPutsTyped, MaxGets, SegmentSizes)
    /\ connCnt = <<>> /\ isServerOnline = <<>> /\ onlineServers = <<>>
    /\ lastProbe = <<>> /\ mainPc = 0 /\ hpc = <<>> /\ hSrv = <<>> /\ hTmp = <<>>
    /\ hStatus = <<>> /\ nProbes = 0
    /\ traceEnabled = FALSE /\ hResp = <<>> /\ hHeader = <<>> /\ hErr = <<>>
    /\ codec = <<>>

TypedNext ==
    \/ StoreNext
    \/ \E c \in Clients, k \in Keys, n \in Ints : PutInt64(c, k, n)
    \/ \E c \in Clients, k \in Keys : GetInt64Send(c, k)
    \/ \E c \in Clients : IndexReplyInt64(c)
    \/ \E c \in Clients : GetInt64Return(c)

SpecTyped == TypedInit /\ [][TypedNext]_vars

\* a store used by two goroutines at once, which put strings and get strings and integers
ConcInit ==
    /\ StoreStartWith(ConcClients) /\ StoreBudget(MaxPutsConc, MaxGetsConc, SegmentSizes)
    /\ connCnt = <<>> /\ isServerOnline = <<>> /\ onlineServers = <<>>
    /\ lastProbe = <<>> /\ mainPc = 0 /\ hpc = <<>> /\ hSrv = <<>> /\ hTmp = <<>>
    /\ hStatus = <<>> /\ nProbes = 0
    /\ traceEnabled = FALSE /\ hResp = <<>> /\ hHeader = <<>> /\ hErr = <<>>
    /\ codec = <<>>

ConcNext ==
    \/ \E c \in ConcClients, k \in Keys : Put(c, k, ValueOf(nPuts))
    \/ createNewSegment
    \/ WriteOk
    \/ SendIndexOp
    \/ \E c \in ConcClients : PutReturn(c)
    \/ \E c \in ConcClients, k \in Keys : GetSend(c, k)
    \/ \E c \in ConcClients, k \in Keys : GetInt64Send(c, k)
    \/ IndexExec
    \/ \E c \in ConcClients : IndexReply(c)
    \/ \E c \in ConcClients : IndexReplyInt64(c)
    \/ \E c \in ConcClients : GetReturn(c)
    \/ \E c \in ConcClients : GetInt64Return(c)

SpecConc == ConcInit /\ [][ConcNext]_vars

(***************************************************************************)
(* The codec on its own: an entry as Put and PutInt64 build it is encoded, *)
(* and the frame is decoded, and read back with readValue from a file in   *)
(* which other bytes may follow it.                                        *)
(***************************************************************************)
\* keys: "", "1", "k2"
CodecKeys == {<<>>, <<49>>, <<107, 50>>}

\* values as Put and PutInt64 store them: "", "a", "ab" and 7, -12 with their tags
CodecValues ==
    {v \o TagString : v \in {<<>>, <<97>>, <<97, 98>>}}
        \cup {FormatInt(n) \o TagInt : n \in {7, -12}}

\* what may follow the frame in the file: nothing, another frame, part of a frame
Follows ==
    {<<>>, Encode(entry(<<50>>, <<98>> \o TagString)),
     Take(Encode(entry(<<50>>, <<98>> \o TagString)), 5)}

NotRun == [ran |-> FALSE]

\* e.Encode() and e.GetLength()
CodecEncode ==
    /\ codec.pc = "new"
    /\ codec' = [codec EXCEPT !.pc = "encoded",
                              !.frame = Encode(codec.e),
                              !.length = GetLength(codec.e)]
    /\ UNCHANGED <<storeVars, lbVars>>

\* e.Decode(frame) on a fresh entry: on the slice Encode returned, or as recover
\* calls it, on a slice of its buffer of bufSize bytes
CodecDecode ==
    /\ codec.pc = "encoded" /\ ~codec.decoded.ran
    /\ \E cap \in {Len(codec.frame),
                    IF Len(codec.frame) < bufSize THEN bufSize ELSE Len(codec.frame)} :
          codec' = [codec EXCEPT
                        !.decoded = [ran |-> TRUE, e |-> Decode(codec.frame, cap)]]
    /\ UNCHANGED <<storeVars, lbVars>>

\* readValue on a reader at the start of the frame, as getFromSegment calls it
CodecReadValue ==
    /\ codec.pc = "encoded" /\ ~codec.read.ran
    /\ codec' = [codec EXCEPT !.read = [ran |-> TRUE,
                                        r |-> readValue(codec.frame \o codec.follow)]]
    /\ UNCHANGED <<storeVars, lbVars>>

\* any entry and any continuation of the file; no store and no balancer
CodecInit ==
    /\ \E k \in CodecKeys, v \in CodecValues, f \in Follows :
          codec = [pc |-> "new", e |-> entry(k, v), follow |-> f, frame |-> <<>>,
                   length |-> 0, decoded |-> NotRun, read |-> NotRun]
    /\ StoreStart /\ StoreBudget(0, 0, {0})
    /\ connCnt = <<>> /\ isServerOnline = <<>> /\ onlineServers = <<>>
    /\ lastProbe = <<>> /\ mainPc = 0 /\ hpc = <<>> /\ hSrv = <<>> /\ hTmp = <<>>
    /\ hStatus = <<>> /\ nProbes = 0
    /\ traceEnabled = FALSE /\ hResp = <<>> /\ hHeader = <<>> /\ hErr = <<>>

CodecNext ==
    \/ CodecEncode
    \/ CodecDecode
    \/ CodecReadValue

SpecCodec == CodecInit /\ [][CodecNext]_vars

(***************************************************************************)
(* cmd/lb/balancer.go: the heap of online servers, the health probes and   *)
(* the request handlers.  The handlers and the probes share connCnt and    *)
(* the heap without a lock: a handler's connCnt++ and connCnt-- are a read *)
(* and a write that other goroutines may come between.                     *)
(***************************************************************************)
\* len(serversPool)
NumServers == 3
Servers == 1..NumServers
Handlers == 1..MaxReqs

\* http.StatusOK, http.StatusBadGateway, http.StatusServiceUnavailable
StatusOK == 200
StatusBadGateway == 502
StatusServiceUnavailable == 503

\* ServerHeap.Less and ServerHeap.Swap on the heap h (indices from 0), cnt the connCnt
Less(h, cnt, i, j) == cnt[h[i + 1]] < cnt[h[j + 1]]
Swap(h, i, j) == [h EXCEPT ![i + 1] = h[j + 1], ![j + 1] = h[i + 1]]

\* container/heap: down returns the heap and the index the element ended at
RECURSIVE down(_, _, _, _)
down(h, cnt, i, n) ==
    LET j1 == 2 * i + 1
    IN  IF j1 >= n THEN [h |-> h, i |-> i]
        ELSE LET j2 == j1 + 1
                 j == IF j2 < n /\ Less(h, cnt, j2, j1) THEN j2 ELSE j1
             IN  IF ~Less(h, cnt, j, i) THEN [h |-> h, i |-> i]
                 ELSE down(Swap(h, i, j), cnt, j, n)

RECURSIVE up(_, _, _)
up(h, cnt, j) ==
    IF j = 0 THEN h
    ELSE LET i == (j - 1) \div 2
         IN  IF ~Less(h, cnt, j, i) THEN h ELSE up(Swap(h, i, j), cnt, i)

\* heap.Fix(&onlineServers, i)
heapFix(h, cnt, i) ==
    LET d == down(h, cnt, i, Len(h))
    IN  IF d.i > i THEN d.h ELSE up(h, cnt, i)

\* heap.Push(&onlineServers, server)
heapPush(h, cnt, server) == up(Append(h, server), cnt, Len(h))

\* heap.Remove(&onlineServers, i)
heapRemove(h, cnt, i) ==
    LET n == Len(h) - 1
        h1 == IF n # i THEN heapFix(SubSeq(Swap(h, i, n), 1, n), cnt, i) \o <<h[i + 1]>>
              ELSE h
    IN  SubSeq(h1, 1, n)

\* the first index of server in the heap, -1 when it is not there
serverIndex(h, server) ==
    IF \E i \in 1..Len(h) : h[i] = server
    THEN (CHOOSE i \in 1..Len(h) : h[i] = server /\ \A j \in 1..(i - 1) : h[j] # server) - 1
    ELSE -1

\* healthCheckUp(server) when health(server.address) returned ok: the heap after it.
\* It reads server.isServerOnline and never assigns it.
healthCheckUp(h, cnt, online, server, ok) ==
    IF ok /\ ~online[server] THEN heapPush(h, cnt, server)
    ELSE IF ~ok /\ online[server]
         THEN IF serverIndex(h, server) # -1
              THEN heapRemove(h, cnt, serverIndex(h, server))
              ELSE h
         ELSE h

ProbeResult(ok) == IF ok THEN "ok" ELSE "fail"

\* main probes every server once before the frontend starts
InitialProbe(ok) ==
    /\ mainPc \in Servers
    /\ onlineServers' = healthCheckUp(onlineServers, connCnt, isServerOnline, mainPc, ok)
    /\ lastProbe' = [lastProbe EXCEPT ![mainPc] = ProbeResult(ok)]
    /\ mainPc' = mainPc + 1
    /\ UNCHANGED <<connCnt, isServerOnline, hpc, hSrv, hTmp, hStatus, nProbes, traceEnabled, hResp, hHeader, hErr,
                   storeVars, codec>>

\* a tick of the goroutine that probes server periodically
PeriodicProbe(server, ok) ==
    /\ mainPc > NumServers
    /\ nProbes < MaxProbes
    /\ onlineServers' = healthCheckUp(onlineServers, connCnt, isServerOnline, server, ok)
    /\ lastProbe' = [lastProbe EXCEPT ![server] = ProbeResult(ok)]
    /\ nProbes' = nProbes + 1
    /\ UNCHANGED <<connCnt, isServerOnline, mainPc, hpc, hSrv, hTmp, hStatus, traceEnabled, hResp, hHeader, hErr,
                   storeVars, codec>>

\* the handler of request r up to server := onlineServers[0]
Dispatch(r) ==
    /\ mainPc > NumServers
    /\ hpc[r] = "new"
    /\ \A q \in 1..(r - 1) : hpc[q] # "new"
    /\ IF Len(onlineServers) = 0
       THEN /\ hStatus' = [hStatus EXCEPT ![r] = StatusBadGateway]
            /\ hpc' = [hpc EXCEPT ![r] = "done"]
            /\ UNCHANGED <<onlineServers, hSrv>>
       ELSE /\ onlineServers' = heapFix(onlineServers, connCnt, 0)
            /\ hSrv' = [hSrv EXCEPT ![r] = onlineServers'[1]]
            /\ hpc' = [hpc EXCEPT ![r] = "inc"]
            /\ UNCHANGED hStatus
    /\ UNCHANGED <<connCnt, isServerOnline, lastProbe, mainPc, hTmp, nProbes, traceEnabled, hResp, hHeader, hErr,
                   storeVars, codec>>

\* server.connCnt++ : the read
IncRead(r) ==
    /\ hpc[r] = "inc"
    /\ hTmp' = [hTmp EXCEPT ![r] = connCnt[hSrv[r]]]
    /\ hpc' = [hpc EXCEPT ![r] = "incWrite"]
    /\ UNCHANGED <<connCnt, isServerOnline, onlineServers, lastProbe, mainPc, hSrv,
                   hStatus, nProbes, traceEnabled, hResp, hHeader, hErr,
                   storeVars, codec>>

\* server.connCnt++ : the write
IncWrite(r) ==
    /\ hpc[r] = "incWrite"
    /\ connCnt' = [connCnt EXCEPT ![hSrv[r]] = hTmp[r] + 1]
    /\ hTmp' = [hTmp EXCEPT ![r] = 0]
    /\ hpc' = [hpc EXCEPT ![r] = "forward"]
    /\ UNCHANGED <<isServerOnline, onlineServers, lastProbe, mainPc, hSrv,
                   hStatus, nProbes, traceEnabled, hResp, hHeader, hErr,
                   storeVars, codec>>

\* Server.address of the servers of serversPool
address(server) ==
    CASE server = 1 -> "server1:8080"
      [] server = 2 -> "server2:8080"
      [] server = 3 -> "server3:8080"

\* textproto.CanonicalMIMEHeaderKey, which http.Header's Add and Set apply to the
\* key: the first letter and every letter after a hyphen upper case, the rest lower
CanonicalMIMEHeaderKey(k) ==
    [i \in 1..Len(k) |->
        IF i = 1 \/ k[i - 1] = 45
        THEN IF k[i] \in 97..122 THEN k[i] - 32 ELSE k[i]
        ELSE IF k[i] \in 65..90 THEN k[i] + 32 ELSE k[i]]

\* the key "lb-from" as forward writes it
LbFrom == <<108, 98, 45, 102, 114, 111, 109>>

\* http.Header: a map from keys to their lists of values
EmptyHeader == [k \in {} |-> <<>>]

\* http.Header.Add and http.Header.Set
HeaderAdd(h, k, v) ==
    LET c == CanonicalMIMEHeaderKey(k)
    IN  IF c \in DOMAIN h THEN [h EXCEPT ![c] = Append(@, v)] ELSE h @@ (c :> <<v>>)

HeaderSet(h, k, v) ==
    LET c == CanonicalMIMEHeaderKey(k)
    IN  IF c \in DOMAIN h THEN [h EXCEPT ![c] = <<v>>] ELSE h @@ (c :> <<v>>)

\* forward's loops over resp.Header: every value of every key added to h
RECURSIVE AddValues(_, _, _)
AddValues(h, k, values) ==
    IF values = <<>> THEN h
    ELSE AddValues(HeaderAdd(h, k, Head(values)), k, Tail(values))

RECURSIVE CopyHeader(_, _, _)
CopyHeader(h, src, keys) ==
    IF keys = {} THEN h
    ELSE LET k == CHOOSE x \in keys : TRUE
         IN  CopyHeader(AddValues(h, k, src[k]), src, keys \ {k})

\* what http.DefaultClient.Do may return to forward: an error, or the response of
\* the backend, whose header keys the client has made canonical
\* (here: a plain 200, and a 503 that carries two lb-from values of its own)
NoResp == [err |-> "nil", StatusCode |-> 0, Header |-> EmptyHeader]
Responses ==
    {[err |-> "failed", StatusCode |-> 0, Header |-> EmptyHeader],
     [err |-> "nil", StatusCode |-> StatusOK, Header |-> EmptyHeader],
     [err |-> "nil", StatusCode |-> StatusServiceUnavailable,
      Header |-> CanonicalMIMEHeaderKey(LbFrom) :> <<"backend", "backend">>]}

\* a forward that takes a 5xx answer for a failed request
forwardResult5xx(dst, resp, trace) ==
    IF resp.err = "nil" /\ resp.StatusCode < 500
    THEN [status |-> resp.StatusCode, header |-> resp.Header, err |-> "nil"]
    ELSE [status |-> StatusServiceUnavailable, header |-> EmptyHeader, err |-> "failed"]

\* a forward that adds lb-from to the values the backend sent
forwardResultAdd(dst, resp, trace) ==
    IF resp.err = "nil"
    THEN [status |-> resp.StatusCode,
          header |-> IF trace THEN HeaderAdd(resp.Header, LbFrom, dst) ELSE resp.Header,
          err |-> "nil"]
    ELSE [status |-> StatusServiceUnavailable, header |-> EmptyHeader, err |-> resp.err]

\* forward(dst, rw, r) once Do has returned resp: the status and the headers it
\* writes to rw, and the error it returns
forwardResult(dst, resp, trace) ==
    IF resp.err = "nil"
    THEN LET copied == CopyHeader(EmptyHeader, resp.Header, DOMAIN resp.Header)
         IN  [status |-> resp.StatusCode,
              header |-> IF trace THEN HeaderSet(copied, LbFrom, dst) ELSE copied,
              err |-> "nil"]
    ELSE [status |-> StatusServiceUnavailable, header |-> EmptyHeader, err |-> resp.err]

\* forward(server.address, rw, r): the backend answers, or the request to it fails
forward(r, resp) ==
    /\ hpc[r] = "forward"
    /\ LET f == forwardResult(address(hSrv[r]), resp, traceEnabled)
       IN  /\ hStatus' = [hStatus EXCEPT ![r] = f.status]
           /\ hHeader' = [hHeader EXCEPT ![r] = f.header]
           /\ hErr' = [hErr EXCEPT ![r] = f.err]
    /\ hResp' = [hResp EXCEPT ![r] = resp]
    /\ hpc' = [hpc EXCEPT ![r] = "dec"]
    /\ UNCHANGED <<connCnt, isServerOnline, onlineServers, lastProbe, mainPc, hSrv,
                   hTmp, nProbes, traceEnabled, storeVars, codec>>

\* server.connCnt-- : the read
DecRead(r) ==
    /\ hpc[r] = "dec"
    /\ hTmp' = [hTmp EXCEPT ![r] = connCnt[hSrv[r]]]
    /\ hpc' = [hpc EXCEPT ![r] = "decWrite"]
    /\ UNCHANGED <<connCnt, isServerOnline, onlineServers, lastProbe, mainPc, hSrv,
                   hStatus, nProbes, traceEnabled, hResp, hHeader, hErr,
                   storeVars, codec>>

\* server.connCnt-- : the write, and the handler returns, which ends the life of
\* its locals (of the response only the status is kept, as history)
DecWrite(r) ==
    /\ hpc[r] = "decWrite"
    /\ connCnt' = [connCnt EXCEPT ![hSrv[r]] = hTmp[r] - 1]
    /\ hTmp' = [hTmp EXCEPT ![r] = 0]
    /\ hSrv' = [hSrv EXCEPT ![r] = 0]
    /\ hResp' = [hResp EXCEPT ![r] = NoResp]
    /\ hHeader' = [hHeader EXCEPT ![r] = EmptyHeader]
    /\ hErr' = [hErr EXCEPT ![r] = "nil"]
    /\ hpc' = [hpc EXCEPT ![r] = "done"]
    /\ UNCHANGED <<isServerOnline, onlineServers, lastProbe, mainPc,
                   hStatus, nProbes, traceEnabled, storeVars, codec>>

\* the balancer at the start of main, and no store
LbInit ==
    /\ connCnt = [s \in Servers |-> 0]
    /\ isServerOnline = [s \in Servers |-> FALSE]
    /\ onlineServers = <<>>
    /\ lastProbe = [s \in Servers |-> "none"]
    /\ mainPc = 1
    /\ hpc = [r \in Handlers |-> "new"]
    /\ hSrv = [r \in Handlers |-> 0]
    /\ hTmp = [r \in Handlers |-> 0]
    /\ hStatus = [r \in Handlers |-> 0]
    /\ traceEnabled \in BOOLEAN
    /\ hResp = [r \in Handlers |-> NoResp]
    /\ hHeader = [r \in Handlers |-> EmptyHeader]
    /\ hErr = [r \in Handlers |-> "nil"]
    /\ nProbes = 0
    /\ StoreStart /\ StoreBudget(0, 0, {0})
    /\ codec = <<>>

LbNext ==
    \/ \E ok \in BOOLEAN : InitialProbe(ok)
    \/ \E server \in Servers, ok \in BOOLEAN : PeriodicProbe(server, ok)
    \/ \E r \in Handlers : Dispatch(r)
    \/ \E r \in Handlers : IncRead(r)
    \/ \E r \in Handlers : IncWrite(r)
    \/ \E r \in Handlers, resp \in Responses : forward(r, resp)
    \/ \E r \in Handlers : DecRead(r)
    \/ \E r \in Handlers : DecWrite(r)

SpecLb == LbInit /\ [][LbNext]_vars

(***************************************************************************)
(* Claims about the store.                                                 *)
(***************************************************************************)
\* C1: a Get that follows the sequential puts Put(k,v1), ..., Put(k,vn) of one caller
\* returns vn (no error), whatever rotations and merges happened in between.
C1_GetReturnsLastPut ==
    \A c \in Clients :
        (reopened = {} /\ cRes[c].op = "get" /\ lastPut[cRes[c].key] # NoneVal)
            => (cRes[c].err = "nil" /\ cRes[c].val \o TagString = lastPut[cRes[c].key])

\* C2: right after Close and NewDb on the same directory the store is open and Get
\* returns, for every key put before, the value of the last Put that returned.
C2_ReopenReturnsLastPut ==
    reopened = {nPuts}
        => /\ dbState = "open"
           /\ \A k \in Keys :
                  lastPut[k] # NoneVal
                      => (GetOf(k).err = "nil" /\ GetOf(k).val \o TagString = lastPut[k])

\* a step of a merge goroutine: its loop over the segments, or its publication
MergeStep ==
    \E m \in 1..Len(merges) :
        /\ merges[m].pc \in {"loop", "publish", "assign"}
        /\ Len(merges') = Len(merges)
        /\ merges'[m].pc # merges[m].pc

\* C3: no step of a background merge changes what Get returns for any key, also when
\* puts and further rotations happened while the merge was running.
C3_MergeKeepsGet ==
    [][MergeStep => \A k \in Keys : GetOf(k)' = GetOf(k)]_vars

\* C9: a Put whose write of the active file failed returns that error to its caller.
C9_PutReturnsWriteError ==
    \A c \in Clients :
        (cRes[c].op = "put" /\ cRes[c].ioErr # "nil") => cRes[c].err = cRes[c].ioErr

\* the write of the entry of the current put fails in this step
FailedWriteStep == wpc = "write" /\ wpc' = "done" /\ wErr' = "io"

\* C10: a failed write records no index entry: no index changes, and a Get of the
\* key of the failed put returns after the failure what it returned before it.
C10_FailedWriteLeavesGet ==
    [][FailedWriteStep => (segments' = segments /\ GetOf(wE.key)' = GetOf(wE.key))]_vars

\* a rotation that brings len(segments) to 3 or more starts a merge
RotationStartsMerge ==
    (wpc = "rotate" /\ wpc' = "write" /\ Len(segments') >= 3)
        => (Len(merges') = Len(merges) + 1 /\ merges'[Len(merges')] = NewMerge)

\* no merge is running, and if one ran the list is the merged and the active segment
Settled ==
    /\ \A m \in 1..Len(merges) : merges[m].pc = "done"
    /\ merges # <<>> => (Len(segments) = 2 /\ segments[2].filePath = out)

\* no goroutine of the store will take another step: the process has ended, or the
\* writer and the index goroutine wait for a request and no merge is unfinished
AtRest ==
    \/ dbState # "open"
    \/ /\ wpc = "recv" /\ ipc = "idle"
       /\ \A c \in Clients : cpc[c] = "idle"
       /\ \A m \in 1..Len(merges) : merges[m].pc = "done"

\* C11: a rotation that brings len(segments) to 3 or more starts a merge, and the
\* goroutines do not come to rest before the segment list is the merged segment
\* followed by the active segment: at rest no merge is unfinished and, if one ran,
\* the list has exactly these 2 elements.
C11_MergeSettles ==
    [][RotationStartsMerge]_vars /\ [](AtRest => Settled)

\* the value, and the type tag, that the last put of key stored
LastValue(key) == SubSeq(lastPut[key], 1, Len(lastPut[key]) - 1)
LastTag(key) == SubSeq(lastPut[key], Len(lastPut[key]), Len(lastPut[key]))

\* C12: a value is readable only through the getter of its type: after PutInt64(k,n)
\* GetInt64(k) returns n and Get(k) an error; after Put(k,v) Get(k) returns v and
\* GetInt64(k) an error.
C12_TypedGetters ==
    \A c \in Clients :
        LET r == cRes[c]
        IN  (reopened = {} /\ r.op \in {"get", "getInt64"} /\ lastPut[r.key] # NoneVal)
                => /\ (r.op = "getInt64" /\ LastTag(r.key) = TagInt)
                          => (r.err = "nil" /\ FormatInt(r.val) = LastValue(r.key))
                   /\ (r.op = "get" /\ LastTag(r.key) = TagString)
                          => (r.err = "nil" /\ r.val = LastValue(r.key))
                   /\ (r.op = "get" /\ LastTag(r.key) = TagInt) => r.err # "nil"
                   /\ (r.op = "getInt64" /\ LastTag(r.key) = TagString) => r.err # "nil"

\* key is in the index of no segment
InNoIndex(key) == \A i \in 1..Len(segments) : segments[i].index[key] = NoPos

\* the steps of a lookup: IndexGoroutine walks the segments, the caller receives
\* the reply, Get or GetInt64 returns
LookupStep == ipc = "exec" /\ ~iOp.isWrite /\ ipc' = "reply"
ReplyStep(c) == cpc[c] \in {"posWait", "posWaitInt64"} /\ cpc'[c] \in {"read", "readInt64"}
ReturnStep(c) == cpc[c] \in {"read", "readInt64"} /\ cpc'[c] = "idle"

FrameAt(file, off, key) ==
    /\ off >= 0 /\ off + 12 + Len(key) <= Len(file)
    /\ Uint32(file, off + 4) = Len(key)
    /\ SubSeq(file, off + 9, off + 8 + Len(key)) = key
    /\ Uint32(file, off) = 12 + Len(key) + Uint32(file, off + 8 + Len(key))
    /\ off + Uint32(file, off) <= Len(file)

\* C19: every entry of every segment's index is the offset, in that segment's own file,
\* at which a complete frame with the entry's key begins.
C19_IndexPointsAtFrame ==
    dbState = "open" =>
        \A i \in 1..Len(segments) : \A k \in Keys :
            segments[i].index[k] # NoPos
                => FrameAt(files[segments[i].filePath], segments[i].index[k], k)

\* merge m assigns the list it built to db.segments
PublishStep(m) ==
    /\ Len(merges') = Len(merges)
    /\ merges[m].pc = "assign" /\ merges'[m].pc = "done"

\* C20: when a merge publishes, the last element of the new list is the segment of the
\* file the writer appends to, with the index it had before the publication, and every
\* segment a rotation added while the merge ran is still in the list.
C20_PublishKeepsActive ==
    [][\A m \in 1..Len(merges) :
          PublishStep(m) =>
              /\ getLastSegment(segments').filePath = out
              /\ getLastSegment(segments') = getLastSegment(segments)
              /\ \A i \in (merges[m].last + 3)..Len(segments) :
                    \E j \in 1..Len(segments') : segments'[j] = segments[i]]_vars

\* the merge goroutines that have not finished
RunningMerges == {m \in 1..Len(merges) : merges[m].pc # "done"}

\* C21: at most one merge runs at any time; a rotation during a merge starts no second
\* merge that overlaps it.
C21_SingleMerge ==
    dbState = "open" => Cardinality(RunningMerges) <= 1

\* the merges that have taken the name of their file
NamedMerges == {m \in RunningMerges : merges[m].pc # "name"}

\* C22: every name generateNewFileName returns is new: no two segments of the list, and
\* no segment and merge in progress, and no two merges in progress, share a file.
C22_UniqueFileNames ==
    dbState = "open" =>
        /\ \A i, j \in 1..Len(segments) :
              i # j => segments[i].filePath # segments[j].filePath
        /\ \A m \in NamedMerges :
              /\ \A i \in 1..Len(segments) : segments[i].filePath # merges[m].filePath
              /\ \A n \in NamedMerges : n # m => merges[n].filePath # merges[m].filePath

\* NewDb runs again on the directory the process left
ReopenStep == reopened = {} /\ reopened' # {}

\* the segment files of the directory that hold data
DataFiles == {f \in FileIds : files[f] # <<>>}

\* C23: NewDb on a directory that holds segment files gives every existing file a
\* segment of the list and makes the highest-numbered one the active segment.
C23_NewDbScansAllFiles ==
    [][ReopenStep =>
          /\ \A f \in DataFiles : \E i \in 1..Len(segments') : segments'[i].filePath = f
          /\ \A f \in DataFiles : f <= out'
          /\ getLastSegment(segments').filePath = out']_vars

\* the bytes rest, read frame by frame, end with an incomplete frame
RECURSIVE TornTail(_)
TornTail(rest) ==
    IF Len(rest) = 0 THEN FALSE
    ELSE IF Len(rest) < 4 THEN TRUE
    ELSE IF Uint32(rest, 0) > Len(rest) \/ Uint32(rest, 0) < 12 THEN TRUE
    ELSE TornTail(Drop(rest, Uint32(rest, 0)))

\* C24: NewDb on a directory whose active file ends with an incomplete frame succeeds,
\* and every key it indexed is at the offset of a complete frame with that key.
C24_TornTailOpens ==
    [][(ReopenStep /\ TornTail(files[0])) =>
          /\ dbState' = "open"
          /\ \A k \in Keys :
                getLastSegment(segments').index[k] # NoPos
                    => FrameAt(files[0], getLastSegment(segments').index[k], k)]_vars

\* C25: the file of a segment that is not the last element of the list is never
\* written: no step changes its content.
C25_SealedFilesImmutable ==
    [][\A i \in 1..(Len(segments) - 1) :
          files'[segments[i].filePath] = files[segments[i].filePath]]_vars

\* PutGoroutine takes a put, and PutGoroutine rotates
TakeStep == wpc = "recv" /\ wpc' \in {"rotate", "write"}
RotateStep == wpc = "rotate" /\ wpc' = "write"

\* C26: a put that does not fit into the active file rotates first and is written at
\* offset 0 of the new file, any other put is appended and adds no segment, and so the
\* active file never grows past the segment size.
C26_RotationRule ==
    /\ [][/\ TakeStep =>
               (wpc' = "rotate" <=> Len(files[out]) + GetLength(wE') > segmentSize)
          /\ RotateStep => /\ Len(segments') = Len(segments) + 1
                           /\ getLastSegment(segments').filePath = out'
                           /\ files[out'] = <<>> /\ outOffset' = 0
          /\ Len(segments') > Len(segments) => RotateStep]_vars
    /\ [](dbState = "open" => Len(files[out]) <= segmentSize)

\* the value of the frame with key that begins at offset off of the bytes file
ValueAt(file, off, key) ==
    LET vl == Uint32(file, off + 8 + Len(key))
    IN  SubSeq(file, off + 13 + Len(key), off + 12 + Len(key) + vl)

\* merge m ends its loop over the segments without a panic
MergeLoopStep(m) ==
    /\ Len(merges') = Len(merges)
    /\ merges[m].pc = "loop" /\ merges'[m].pc = "publish"
    /\ dbState' = "open"

\* the merged segments (1-based positions) whose index holds key
MergedHits(m, key) ==
    {i \in 1..Min(merges[m].last + 1, Len(segments)) : segments[i].index[key] # NoPos}

\* C27: the segment a merge produces holds, for every key of the merged segments, one
\* entry with the value of the newest merged segment that has the key, none when that
\* value is the tombstone, and no entry for any other key.
C27_MergeContent ==
    [][\A m \in 1..Len(merges) : MergeLoopStep(m) =>
          \A k \in Keys :
              IF MergedHits(m, k) = {} THEN merges'[m].index[k] = NoPos
              ELSE LET i == CHOOSE h \in MergedHits(m, k) : \A j \in MergedHits(m, k) : j <= h
                       src == files[segments[i].filePath]
                       off == segments[i].index[k]
                       dst == files'[merges[m].filePath]
                   IN  FrameAt(src, off, k) =>
                          IF ValueAt(src, off, k) = deleteMarker
                          THEN merges'[m].index[k] = NoPos
                          ELSE /\ merges'[m].index[k] # NoPos
                               /\ FrameAt(dst, merges'[m].index[k], k)
                               /\ ValueAt(dst, merges'[m].index[k], k)
                                      = ValueAt(src, off, k)]_vars

\* caller c is inside Put, PutInt64, Get or GetInt64
InCall(c) == cpc[c] # "idle"
\* the process runs and PutGoroutine, IndexGoroutine or caller c has a step to take:
\* PutGoroutine rotates, writes or sends putDone to the caller that waits for it, or
\* sends on indexOps with IndexGoroutine at its receive; IndexGoroutine runs an op or
\* sends on keyPositions to the caller that waits for it; the caller reads its value
CanStep(c) ==
    /\ dbState = "open"
    /\ \/ wpc \in {"rotate", "write"}
       \/ wpc = "done" /\ \E d \in DOMAIN cpc : cpc[d] = "putWait"
       \/ wpc = "index" /\ ipc = "idle"
       \/ ipc = "exec"
       \/ ipc = "reply" /\ \E d \in DOMAIN cpc : cpc[d] \in {"posWait", "posWaitInt64"}
       \/ cpc[c] \in {"read", "readInt64"}

\* C28: a call of Put, PutInt64, Get or GetInt64 that has not returned is never stuck:
\* in every reachable state with a caller inside a call the process runs and a
\* goroutine or the caller has a step to take, so that under fair scheduling the call
\* returns.
C28_CallsReturn == [](\A c \in DOMAIN cpc : InCall(c) => CanStep(c))

\* the callers that wait in getPos for the reply on keyPositions
Waiting == {c \in DOMAIN cpc : cpc[c] \in {"posWait", "posWaitInt64"}}
LookupPending == ipc = "reply" \/ (ipc = "exec" /\ ~iOp.isWrite)

\* C29: with two goroutines calling Get and GetInt64 while puts are in flight, exactly
\* one caller waits on keyPositions while a lookup is pending and none otherwise, the
\* lookup IndexGoroutine runs is the one for that caller's key, and the position the
\* caller receives is the result of that lookup.
C29_ReplyMatchesCaller ==
    /\ [](IF LookupPending THEN Cardinality(Waiting) = 1 ELSE Waiting = {})
    /\ []((ipc = "exec" /\ ~iOp.isWrite) => \A c \in Waiting : cKey[c] = iOp.key)
    /\ [][LookupStep => \A c \in Waiting :
                            iRes' = getSegmentAndPos(segments, cKey[c])]_vars
    /\ [][\A c \in ConcClients :
            ReplyStep(c) => (cPos'[c] = iRes /\ cKey'[c] = cKey[c])]_vars

\* both callers hold the reply to their own lookup, for different keys, one of them in
\* Get and the other in GetInt64, and the two replies differ
C29_Witness ==
    /\ cpc[1] = "read" /\ cpc[2] = "readInt64"
    /\ cKey[1] # cKey[2] /\ cPos[1] # cPos[2]
    /\ \A c \in ConcClients : cPos[c] = getSegmentAndPos(segments, cKey[c])

(***************************************************************************)
(* Claims about the balancer.                                              *)
(***************************************************************************)
\* request r is dispatched to a backend in this step
Dispatched(r) == hpc[r] = "new" /\ hpc'[r] = "inc"

\* C4: the backend a dispatch chooses has the least connCnt of all backends in the
\* online heap at that moment.
C4_DispatchPicksLeast ==
    [][\A r \in Handlers :
          Dispatched(r) =>
              \A i \in 1..Len(onlineServers) :
                  connCnt[hSrv'[r]] <= connCnt[onlineServers[i]]]_vars

\* the requests that have incremented the connCnt of server and not yet decremented it
InFlight(server) ==
    {r \in Handlers : hSrv[r] = server /\ hpc[r] \in {"forward", "dec", "decWrite"}}

\* C5: connCnt of every backend is the number of requests being forwarded to it; it
\* is never negative, and zero once every request has completed.
C5_ConnCntIsInFlight ==
    \A server \in Servers :
        /\ connCnt[server] >= 0
        /\ connCnt[server] = Cardinality(InFlight(server))

\* the requests between the selection of a backend and the increment of its connCnt
Selecting == {r \in Handlers : hpc[r] \in {"inc", "incWrite"}}

\* C6: selecting a backend and incrementing its connCnt is atomic with respect to
\* the other handlers: no two requests are between selection and increment at once.
C6_SelectIncrementAtomic == Cardinality(Selecting) <= 1

\* C7: a backend whose latest probe did not return 200 is never chosen.
C7_ChosenBackendProbedOk ==
    [][\A r \in Handlers : Dispatched(r) => lastProbe[hSrv'[r]] = "ok"]_vars

\* no backend's latest probe returned 200
NoneLive == \A server \in Servers : lastProbe[server] # "ok"

\* C8: a request handled while no backend is live is answered 502 and forwarded to
\* no backend.
C8_NoLiveBackend502 ==
    [][\A r \in Handlers :
          (NoneLive /\ hpc[r] = "new" /\ hpc'[r] # "new")
              => (hStatus'[r] = StatusBadGateway /\ hpc'[r] = "done")]_vars

\* forward has returned in the handler of request r, which has not yet returned
Forwarded(r) == hpc[r] \in {"dec", "decWrite"}

\* C14: forward writes 503 and returns the error exactly when the request to the
\* backend failed; an answer of the backend, a 5xx included, is relayed with its
\* status and forward returns nil.
C14_ForwardStatus ==
    \A r \in Handlers :
        Forwarded(r) =>
            /\ hResp[r].err # "nil"
                  <=> (hStatus[r] = StatusServiceUnavailable /\ hErr[r] # "nil")
            /\ hResp[r].err # "nil" => hErr[r] = hResp[r].err
            /\ hResp[r].err = "nil" => (hStatus[r] = hResp[r].StatusCode /\ hErr[r] = "nil")

\* one request failed and the backend of a concurrent one answered 503
C14_Witness ==
    \E r, q \in Handlers :
        /\ Forwarded(r) /\ hResp[r].err # "nil"
        /\ Forwarded(q) /\ hResp[q].err = "nil"
        /\ hResp[q].StatusCode = StatusServiceUnavailable

\* the header keys of h that name lb-from, in whatever case
LbFromKeys(h) == {k \in DOMAIN h : CanonicalMIMEHeaderKey(k) = CanonicalMIMEHeaderKey(LbFrom)}

\* C15: with tracing enabled a relayed response carries exactly one lb-from value, the
\* address of the backend the handler selected, whatever other requests are in flight;
\* with tracing disabled it carries the backend's headers and nothing else.
C15_LbFromHeader ==
    \A r \in Handlers :
        (Forwarded(r) /\ hResp[r].err = "nil") =>
            IF traceEnabled
            THEN /\ LbFromKeys(hHeader[r]) = {CanonicalMIMEHeaderKey(LbFrom)}
                 /\ hHeader[r][CanonicalMIMEHeaderKey(LbFrom)] = <<address(hSrv[r])>>
            ELSE hHeader[r] = hResp[r].Header

\* tracing enabled, two requests relayed from different backends at the same time,
\* one of them with lb-from values of the backend's own
C15_Witness ==
    /\ traceEnabled
    /\ \E r, q \in Handlers :
        /\ Forwarded(r) /\ hResp[r].err = "nil"
        /\ Forwarded(q) /\ hResp[q].err = "nil"
        /\ hSrv[r] # hSrv[q]
        /\ LbFromKeys(hResp[q].Header) # {}

\* the places of the online heap that hold server
HeapPlaces(server) == {i \in 1..Len(onlineServers) : onlineServers[i] = server}

\* C30: after any sequence of probe results every backend is in the online heap at
\* most once, and its isServerOnline flag is true exactly when it is in the heap.
C30_HeapMatchesFlags ==
    \A server \in Servers :
        /\ Cardinality(HeapPlaces(server)) <= 1
        /\ isServerOnline[server] <=> HeapPlaces(server) # {}

\* C30, first half alone: a backend is in the online heap at most once
C30_NoDuplicates == \A server \in Servers : Cardinality(HeapPlaces(server)) <= 1

(***************************************************************************)
(* Claims about the codec.                                                 *)
(***************************************************************************)
\* C16: Decode of the bytes Encode produced for an entry yields the entry's key and
\* value, without failing and without reading past the end of the frame.
C16_DecodeInvertsEncode ==
    codec # <<>> /\ codec.decoded.ran
        => /\ ~codec.decoded.e.panic
           /\ codec.decoded.e.key = codec.e.key
           /\ codec.decoded.e.value = codec.e.value

\* C17: readValue at the start of a frame Encode produced returns the entry's value,
\* whatever follows the frame.
C17_ReadValueReturnsValue ==
    codec # <<>> /\ codec.read.ran => codec.read.r = Ok(codec.e.value)

\* C18: the frame Encode returns is as long as GetLength says, which is 12 plus the
\* lengths of key and value, and its first four bytes hold that length little-endian.
C18_FrameLength ==
    codec # <<>> /\ codec.pc = "encoded"
        => /\ Len(codec.frame) = codec.length
           /\ codec.length = 12 + Len(codec.e.key) + Len(codec.e.value)
           /\ \A i \in 1..4 :
                codec.frame[i] = (Len(codec.frame) \div (256 ^ (i - 1))) % 256

\* a frame with a key of two bytes and a value of four has been produced
C18_Witness ==
    /\ codec # <<>> /\ codec.pc = "encoded"
    /\ Len(codec.e.key) = 2 /\ Len(codec.e.value) = 4

====
